---------------------------- MODULE Spec2Model ----------------------------
(***************************************************************************)
(* A model of pygame_menu's Theme (themes.py) and MenuBar (menubar.py).    *)
(*                                                                         *)
(* Python values are tagged records [k, v, s]: k is the Python type, v the *)
(* numeric content (the elements of a tuple or list, or a one-element      *)
(* sequence for a number or a bool) and s the content of a str.  A float   *)
(* is a fixed-point number: v[1] / FloatDen.                               *)
(***************************************************************************)
EXTENDS Integers, Sequences, FiniteSets, TLC

VARIABLES
    theme,      \* the attributes of the Theme object (attribute name -> value)
    built,      \* TRUE once Theme.__init__ has returned normally
    kwargs,     \* the keyword map the constructor was called with
    ret,        \* the last Theme call: [op, err, arg]
    bar,        \* the fields of the MenuBar object
    menu,       \* the state of the Menu that the bar reads
    bret,       \* the last MenuBar call: [op, result]
    passed      \* history: the hash inputs of the last render pass

themeVars == <<theme, built, kwargs, ret>>
barVars == <<bar, menu, bret, passed>>
vars == <<theme, built, kwargs, ret, bar, menu, bret, passed>>

-----------------------------------------------------------------------------
(* Bounds *)

\* number of recognised keywords a constructor call supplies
MaxKeys == 1
\* number of submenus opened below the root menu
MaxDepth == 2
\* a float is a multiple of 1 / 2^FloatBits
FloatBits == 2

FloatDen == 2 ^ FloatBits

-----------------------------------------------------------------------------
(* Python values *)

Tup(s) == [k |-> "tuple", v |-> s, s |-> ""]
Lst(s) == [k |-> "list", v |-> s, s |-> ""]
IntV(n) == [k |-> "int", v |-> <<n>>, s |-> ""]
FloatV(n) == [k |-> "float", v |-> <<n>>, s |-> ""]
BoolV(b) == [k |-> "bool", v |-> <<IF b THEN 1 ELSE 0>>, s |-> ""]
StrV(str) == [k |-> "str", v |-> <<>>, s |-> str]
NoneV == [k |-> "none", v |-> <<>>, s |-> ""]
\* a pygame_menu.baseimage.BaseImage object
ImageV == [k |-> "BaseImage", v |-> <<>>, s |-> ""]
\* a pygame_menu.widgets.core.Selection object
SelectionV == [k |-> "Selection", v |-> <<>>, s |-> ""]

IsSeq(x) == x.k \in {"tuple", "list"}

\* the Python classes the Theme names as allowed types
Classes == {"int", "float", "bool", "str", "Selection"}

\* isinstance(value, cls) for the classes the Theme uses; bool is a subclass
\* of int
IsInstance(value, cls) ==
    CASE cls = "int" -> value.k \in {"int", "bool"}
      [] cls = "float" -> value.k = "float"
      [] cls = "bool" -> value.k = "bool"
      [] cls = "str" -> value.k = "str"
      [] cls = "Selection" -> value.k = "Selection"
      [] OTHER -> FALSE

-----------------------------------------------------------------------------
(* Constants of pygame_menu *)

MENUBAR_STYLE_ADAPTIVE == 1000
MENUBAR_STYLE_SIMPLE == 1001
MENUBAR_STYLE_TITLE_ONLY == 1002
MENUBAR_STYLE_TITLE_ONLY_DIAGONAL == 1003
MENUBAR_STYLE_NONE == 1004
MENUBAR_STYLE_UNDERLINE == 1005
MENUBAR_STYLE_UNDERLINE_TITLE == 1006

\* pygame_menu.locals: the named directions and alignments
POSITION_NORTHWEST == "position-northwest"
POSITION_SOUTHEAST == "position-southeast"
POSITION_EAST == "position-east"
POSITION_CENTER == "position-center"
ALIGN_CENTER == "align-center"
ALIGN_LEFT == "align-left"
FONT_OPEN_SANS == "opensans"

Positions ==
    {"position-north", "position-south", POSITION_EAST, "position-west",
     "position-northeast", POSITION_NORTHWEST, POSITION_SOUTHEAST,
     "position-southwest", POSITION_CENTER}

Alignments == {ALIGN_LEFT, ALIGN_CENTER, "align-right"}

MenubarStyles ==
    {MENUBAR_STYLE_ADAPTIVE, MENUBAR_STYLE_SIMPLE, MENUBAR_STYLE_TITLE_ONLY,
     MENUBAR_STYLE_TITLE_ONLY_DIAGONAL, MENUBAR_STYLE_NONE,
     MENUBAR_STYLE_UNDERLINE, MENUBAR_STYLE_UNDERLINE_TITLE}

\* style in (...): Python compares numbers by value
check_menubar_style(style) ==
    CASE style.k \in {"int", "bool"} -> style.v[1] \in MenubarStyles
      [] style.k = "float" -> \E m \in MenubarStyles : style.v[1] = m * FloatDen
      [] OTHER -> FALSE

\* pygame_menu.utils.assert_color: a tuple or list of 3 or 4 numbers in 0..255
assert_color(color) ==
    /\ IsSeq(color)
    /\ Len(color.v) \in {3, 4}
    /\ \A i \in 1..Len(color.v) : color.v[i] \in 0..255

\* pygame_menu.utils.assert_vector2: a tuple or list of exactly 2 numbers
assert_vector2(vec) == IsSeq(vec) /\ Len(vec.v) = 2

\* pygame_menu.utils.assert_position: a member of the closed set of directions
assert_position(p) == p.k = "str" /\ p.s \in Positions

\* pygame_menu.utils.assert_alignment
assert_alignment(a) == a.k = "str" /\ a.s \in Alignments

\* pygame_menu.scrollarea.get_scrollbars_from_position(p) is not None
get_scrollbars_from_position(p) ==
    p.k = "str" /\ p.s \in Positions \ {POSITION_CENTER}

-----------------------------------------------------------------------------
(* Theme.__init__ *)

P(attr, key, types, default) ==
    [attr |-> attr, key |-> key, types |-> types, default |-> default]

\* The _get calls of Theme.__init__, in the order the constructor makes them.
\* A type is one of the names _get treats specially, or "<class>" for a
\* Python class; "str" is the string literal 'str' passed for
\* scrollarea_position.
InitParams ==
    << P("background_color", "background_color", <<"color_image">>, Tup(<<220, 220, 220>>)),
       P("cursor_color", "cursor_color", <<"color">>, Tup(<<0, 0, 0>>)),
       P("cursor_selection_color", "cursor_selection_color", <<"color">>, Tup(<<30, 30, 30, 120>>)),
       P("focus_background_color", "focus_background_color", <<"color">>, Tup(<<0, 0, 0, 180>>)),
       P("readonly_color", "readonly_color", <<"color">>, Tup(<<120, 120, 120>>)),
       P("readonly_selected_color", "readonly_selected_color", <<"color">>, Tup(<<190, 190, 190>>)),
       P("selection_color", "selection_color", <<"color">>, Tup(<<255, 255, 255>>)),
       P("surface_clear_color", "surface_clear_color", <<"color">>, Tup(<<0, 0, 0>>)),
       P("menubar_close_button", "menubar_close_button", <<"bool">>, BoolV(TRUE)),
       P("title_background_color", "title_background_color", <<"color">>, Tup(<<70, 70, 70>>)),
       P("title_bar_modify_scrollarea", "title_bar_modify_scrollarea", <<"bool">>, BoolV(TRUE)),
       P("title_bar_style", "title_bar_style", <<"int">>, IntV(MENUBAR_STYLE_ADAPTIVE)),
       P("title_font", "title_font", <<"str">>, StrV(FONT_OPEN_SANS)),
       P("title_font_antialias", "title_font_antialias", <<"bool">>, BoolV(TRUE)),
       P("title_font_color", "title_font_color", <<"color">>, Tup(<<220, 220, 220>>)),
       P("title_font_size", "title_font_size", <<"int">>, IntV(40)),
       P("title_offset", "title_offset", <<"tuple2">>, Tup(<<5, -1>>)),
       P("title_shadow", "title_shadow", <<"bool">>, BoolV(FALSE)),
       P("title_shadow_color", "title_shadow_color", <<"color">>, Tup(<<0, 0, 0>>)),
       P("title_shadow_offset", "title_shadow_offset", <<"int", "float">>, IntV(2)),
       P("title_shadow_position", "title_shadow_position", <<"position">>, StrV(POSITION_NORTHWEST)),
       P("scrollarea_outer_margin", "scrollarea_outer_margin", <<"tuple2">>, Tup(<<0, 0>>)),
       P("scrollarea_position", "scrollarea_position", <<"'str'">>, StrV(POSITION_SOUTHEAST)),
       P("scrollbar_color", "scrollbar_color", <<"color">>, Tup(<<220, 220, 220>>)),
       P("scrollbar_shadow", "scrollbar_shadow", <<"bool">>, BoolV(FALSE)),
       P("scrollbar_shadow_color", "scrollbar_shadow_color", <<"color">>, Tup(<<0, 0, 0>>)),
       P("scrollbar_shadow_offset", "scrollbar_shadow_offset", <<"int", "float">>, IntV(2)),
       P("scrollbar_shadow_position", "scrollbar_shadow_position", <<"position">>, StrV(POSITION_NORTHWEST)),
       P("scrollbar_slider_color", "scrollbar_slider_color", <<"color">>, Tup(<<200, 200, 200>>)),
       P("scrollbar_slider_pad", "scrollbar_slider_pad", <<"int", "float">>, IntV(0)),
       P("scrollbar_thick", "scrollbar_thick", <<"int", "float">>, IntV(20)),
       P("widget_alignment", "widget_alignment", <<"alignment">>, StrV(ALIGN_CENTER)),
       P("widget_background_color", "widget_background_color", <<"color_image_none">>, NoneV),
       P("widget_background_inflate", "background_inflate", <<"tuple2">>, Tup(<<0, 0>>)),
       P("widget_font", "widget_font", <<"str">>, StrV(FONT_OPEN_SANS)),
       P("widget_font_antialias", "widget_font_antialias", <<"bool">>, BoolV(TRUE)),
       P("widget_font_background_color", "widget_font_background_color", <<"color_none">>, NoneV),
       P("widget_font_background_color_from_menu", "widget_font_background_color_from_menu", <<"bool">>, BoolV(FALSE)),
       P("widget_font_color", "widget_font_color", <<"color">>, Tup(<<70, 70, 70>>)),
       P("widget_font_size", "widget_font_size", <<"int">>, IntV(30)),
       P("widget_margin", "widget_margin", <<"tuple2">>, Tup(<<0, 10>>)),
       P("widget_padding", "widget_padding", <<"int", "float">>, IntV(0)),
       P("widget_offset", "widget_offset", <<"tuple2">>, Tup(<<0, 0>>)),
       P("widget_selection_effect", "widget_selection_effect", <<"Selection">>, SelectionV),
       P("widget_shadow", "widget_shadow", <<"bool">>, BoolV(FALSE)),
       P("widget_shadow_color", "widget_shadow_color", <<"color">>, Tup(<<0, 0, 0>>)),
       P("widget_shadow_offset", "widget_shadow_offset", <<"int", "float">>, IntV(2)),
       P("widget_shadow_position", "widget_shadow_position", <<"position">>, StrV(POSITION_NORTHWEST)) >>

\* the attributes of a Theme object
Attrs == {InitParams[i].attr : i \in 1..Len(InitParams)}

\* the keywords the constructor looks up
InitKeys == {InitParams[i].key : i \in 1..Len(InitParams)}

\* the names _get treats specially (all_types)
all_types ==
    {"color", "color_none", "color_image", "color_image_none", "position",
     "alignment", "tuple2"}

\* One pass of the loop "for valtype in allowed_types" of _get:
\* "return" (the value is returned at once), "fail" (an assertion fails) or
\* "next".
GetLoopStep(valtype, value) ==
    CASE valtype = "color" ->
           IF assert_color(value) THEN "next" ELSE "fail"
      [] valtype = "color_none" ->
           IF value.k = "none" THEN "return"
           ELSE IF assert_color(value) THEN "next" ELSE "fail"
      [] valtype = "color_image" ->
           IF value.k = "BaseImage" THEN "return"
           ELSE IF assert_color(value) THEN "next" ELSE "fail"
      [] valtype = "color_image_none" ->
           IF value.k \in {"none", "BaseImage"} THEN "return"
           ELSE IF assert_color(value) THEN "next" ELSE "fail"
      [] valtype = "position" ->
           IF assert_position(value) THEN "next" ELSE "fail"
      [] valtype = "alignment" ->
           IF assert_alignment(value) THEN "next" ELSE "fail"
      [] valtype = "tuple2" ->
           IF assert_vector2(value) THEN "next" ELSE "fail"
      [] OTHER -> "next"

RECURSIVE GetLoop(_, _, _)
GetLoop(allowed_types, i, value) ==
    IF i > Len(allowed_types) THEN "next"
    ELSE LET r == GetLoopStep(allowed_types[i], value)
         IN  IF r = "next" THEN GetLoop(allowed_types, i + 1, value) ELSE r

\* isinstance(value, others): the members of the tuple are tried in order; one
\* that is not a class (the string 'str') raises TypeError
RECURSIVE IsInstanceOthers(_, _, _)
IsInstanceOthers(value, others, i) ==
    IF i > Len(others) THEN "AssertionError"
    ELSE IF others[i] \notin Classes THEN "TypeError"
    ELSE IF IsInstance(value, others[i]) THEN "none"
    ELSE IsInstanceOthers(value, others, i + 1)

\* Theme._get: the value for key and the keywords left, or the error raised
_get(params, key, allowed_types, default) ==
    IF key \notin DOMAIN params
    THEN [err |-> "none", value |-> default, params |-> params]
    ELSE LET value == params[key]
             rest == [k \in DOMAIN params \ {key} |-> params[k]]
             loop == GetLoop(allowed_types, 1, value)
             others == SelectSeq(allowed_types, LAMBDA t : t \notin all_types)
             err == IF loop = "fail" THEN "AssertionError"
                    ELSE IF loop = "return" \/ others = <<>> THEN "none"
                    ELSE IsInstanceOthers(value, others, 1)
         IN  [err |-> err, value |-> value, params |-> rest]

\* the attribute map before the constructor has assigned anything
NoTheme == [a \in Attrs |-> NoneV]

\* the i-th _get call of the constructor, made on the keyword map kw; every
\* call looks up a keyword of its own, so the keywords popped by the earlier
\* calls do not change what it finds
GetCall(kw, i) ==
    _get(kw, InitParams[i].key, InitParams[i].types, InitParams[i].default)

\* the place in InitParams of the call that assigns attribute a
ParamOf == [a \in Attrs |-> CHOOSE i \in 1..Len(InitParams) : InitParams[i].attr = a]

\* Theme.__init__: [err, theme]. The _get calls are made in order and the
\* first one that raises ends the construction; when all have returned, a
\* keyword that none of them popped is an unknown parameter (ValueError).
Theme__init__(kw) ==
    LET raising == {i \in 1..Len(InitParams) :
                      InitParams[i].key \in DOMAIN kw /\ GetCall(kw, i).err # "none"}
        first == CHOOSE i \in raising : \A j \in raising : i <= j
    IN  IF raising # {}
        THEN [err |-> GetCall(kw, first).err, theme |-> NoTheme]
        ELSE IF DOMAIN kw \ InitKeys # {}
        THEN [err |-> "ValueError", theme |-> NoTheme]
        ELSE [err |-> "none", theme |-> [a \in Attrs |-> GetCall(kw, ParamOf[a]).value]]

-----------------------------------------------------------------------------
(* Theme.validate *)

\* a _format_opacity that halves the alpha channel of a 4-channel colour
\* each time it is applied
FormatOpacityReapplied(color) ==
    IF color.k = "BaseImage" \/ color.k = "none"
    THEN [err |-> "none", value |-> color]
    ELSE IF IsSeq(color)
    THEN IF ~assert_color(color)
         THEN [err |-> "AssertionError", value |-> color]
         ELSE IF Len(color.v) = 4
         THEN [err |-> "none",
               value |-> Tup(<<color.v[1], color.v[2], color.v[3], color.v[4] \div 2>>)]
         ELSE [err |-> "none",
               value |-> Tup(<<color.v[1], color.v[2], color.v[3], 255>>)]
    ELSE [err |-> "ValueError", value |-> color]

\* Theme._format_opacity: [err, value]
_format_opacity(color) ==
    IF color.k = "BaseImage" \/ color.k = "none"
    THEN [err |-> "none", value |-> color]
    ELSE IF IsSeq(color)
    THEN IF ~assert_color(color)
         THEN [err |-> "AssertionError", value |-> color]
         ELSE IF Len(color.v) = 4
         THEN [err |-> "none",
               value |-> IF color.k = "tuple" THEN color
                         ELSE Tup(<<color.v[1], color.v[2], color.v[3], color.v[4]>>)]
         ELSE [err |-> "none",
               value |-> Tup(<<color.v[1], color.v[2], color.v[3], 255>>)]
    ELSE [err |-> "ValueError", value |-> color]

\* _vec_to_tuple that does not check the length
VecToTupleAnyLength(obj, check_length) ==
    IF ~IsSeq(obj) THEN [err |-> "ValueError", value |-> obj]
    ELSE [err |-> "none", value |-> Tup(obj.v)]

\* Theme._vec_to_tuple: [err, value]
_vec_to_tuple(obj, check_length) ==
    IF ~IsSeq(obj) THEN [err |-> "ValueError", value |-> obj]
    ELSE IF check_length > 0 /\ Len(obj.v) # check_length
    THEN [err |-> "ValueError", value |-> obj]
    ELSE [err |-> "none", value |-> Tup(obj.v)]

\* validate: the boolean asserts
BooleanAsserts(t) ==
    \A a \in {"menubar_close_button", "title_bar_modify_scrollarea",
               "title_font_antialias", "title_shadow", "scrollbar_shadow",
               "widget_font_antialias", "widget_font_background_color_from_menu",
               "widget_shadow"} : IsInstance(t[a], "bool")

IsNumber(x) == IsInstance(x, "int") \/ IsInstance(x, "float")

\* validate: the value type checks
ValueTypeChecks(t) ==
    /\ check_menubar_style(t.title_bar_style)
    /\ IsInstance(t.title_font, "str")
    /\ IsInstance(t.title_font_size, "int")
    /\ IsNumber(t.title_shadow_offset)
    /\ assert_position(t.title_shadow_position)
    /\ get_scrollbars_from_position(t.scrollarea_position)
    /\ IsNumber(t.scrollbar_shadow_offset)
    /\ assert_position(t.scrollbar_shadow_position)
    /\ IsNumber(t.scrollbar_slider_pad)
    /\ IsNumber(t.scrollbar_thick)
    /\ assert_alignment(t.widget_alignment)
    /\ IsInstance(t.widget_font, "str")
    /\ IsInstance(t.widget_font_size, "int")
    /\ IsInstance(t.widget_selection_effect, "Selection")
    /\ IsNumber(t.widget_shadow_offset)
    /\ assert_position(t.widget_shadow_position)

\* validate: the attributes passed through _format_opacity, in order
FormatOrder ==
    << "background_color", "cursor_color", "cursor_selection_color",
       "focus_background_color", "readonly_color", "readonly_selected_color",
       "scrollbar_color", "scrollbar_shadow_color", "scrollbar_slider_color",
       "selection_color", "surface_clear_color", "title_background_color",
       "title_font_color", "title_shadow_color", "widget_background_color",
       "widget_font_background_color", "widget_font_color" >>

\* the assignments are made one by one: an error leaves the earlier ones made
RECURSIVE FormatColors(_, _)
FormatColors(i, t) ==
    IF i > Len(FormatOrder) THEN [err |-> "none", theme |-> t]
    ELSE LET r == _format_opacity(t[FormatOrder[i]])
         IN  IF r.err # "none" THEN [err |-> r.err, theme |-> t]
             ELSE FormatColors(i + 1, [t EXCEPT ![FormatOrder[i]] = r.value])

\* validate: the list-to-tuple assignments, in order; check is the length
\* passed to _vec_to_tuple, and widget_padding is converted only when it is a
\* tuple or a list, and then its length is asserted after the assignment
VecOrder ==
    << [attr |-> "scrollarea_outer_margin", check |-> 2],
       [attr |-> "title_offset", check |-> 2],
       [attr |-> "widget_background_inflate", check |-> 2],
       [attr |-> "widget_margin", check |-> 2],
       [attr |-> "widget_padding", check |-> 0],
       [attr |-> "widget_offset", check |-> 2] >>

RECURSIVE ListToTuple(_, _)
ListToTuple(i, t) ==
    IF i > Len(VecOrder) THEN [err |-> "none", theme |-> t]
    ELSE LET a == VecOrder[i].attr
             r == _vec_to_tuple(t[a], VecOrder[i].check)
         IN  IF a = "widget_padding" /\ ~IsSeq(t[a]) THEN ListToTuple(i + 1, t)
             ELSE IF r.err # "none" THEN [err |-> r.err, theme |-> t]
             ELSE IF a = "widget_padding" /\ Len(r.value.v) \notin 2..4
             THEN [err |-> "AssertionError", theme |-> [t EXCEPT ![a] = r.value]]
             ELSE ListToTuple(i + 1, [t EXCEPT ![a] = r.value])

\* CheckSizes without the assertion on widget_offset
CheckSizesNoWidgetOffset(t) ==
    /\ t.scrollarea_outer_margin.v[1] >= 0 /\ t.scrollarea_outer_margin.v[2] >= 0
    /\ t.scrollbar_shadow_offset.v[1] > 0
    /\ t.scrollbar_slider_pad.v[1] >= 0
    /\ t.scrollbar_thick.v[1] > 0
    /\ t.title_font_size.v[1] > 0
    /\ t.widget_font_size.v[1] > 0
    /\ t.widget_shadow_offset.v[1] > 0

\* validate: "Check sizes"
CheckSizes(t) ==
    /\ t.scrollarea_outer_margin.v[1] >= 0 /\ t.scrollarea_outer_margin.v[2] >= 0
    /\ t.widget_offset.v[1] >= 0 /\ t.widget_offset.v[2] >= 0
    /\ t.scrollbar_shadow_offset.v[1] > 0
    /\ t.scrollbar_slider_pad.v[1] >= 0
    /\ t.scrollbar_thick.v[1] > 0
    /\ t.title_font_size.v[1] > 0
    /\ t.widget_font_size.v[1] > 0
    /\ t.widget_shadow_offset.v[1] > 0

\* ColorAsserts reading the blue channel in place of the alpha channel
ColorAssertsBlueChannel(t) == t.focus_background_color.v[3] # 0

\* validate: "Color asserts"
ColorAsserts(t) == t.focus_background_color.v[4] # 0

\* Theme.validate: [err, theme], theme being the attributes as the call
\* leaves them (it assigns in place, so a failing call may have changed some).
\* widget_selection_effect.set_color changes the selection object, not the
\* Theme.
validate(t) ==
    IF ~BooleanAsserts(t) \/ ~ValueTypeChecks(t)
    THEN [err |-> "AssertionError", theme |-> t]
    ELSE LET r1 == FormatColors(1, t)
             r2 == IF r1.err = "none" THEN ListToTuple(1, r1.theme) ELSE r1
         IN  IF r2.err # "none" THEN r2
             ELSE IF ~CheckSizes(r2.theme) \/ ~ColorAsserts(r2.theme)
             THEN [err |-> "AssertionError", theme |-> r2.theme]
             ELSE r2

-----------------------------------------------------------------------------
(* Theme.set_background_color_opacity *)

\* int(x) of the float num / FloatDen: truncation towards zero
IntOfFloat(num) ==
    IF num >= 0 THEN num \div FloatDen ELSE -((-num) \div FloatDen)

\* round(x) of the float num / FloatDen, num >= 0: to the nearest integer, a
\* tie to the even one
RoundOfFloat(num) ==
    LET q == num \div FloatDen
        r == num % FloatDen
    IN  IF 2 * r > FloatDen \/ (2 * r = FloatDen /\ q % 2 = 1) THEN q + 1 ELSE q

\* set_background_color_opacity rounding the alpha in place of truncating it
SetOpacityRounding(t, opacity) ==
    IF ~IsInstance(opacity, "float")
       \/ ~(0 <= opacity.v[1] /\ opacity.v[1] <= FloatDen)
    THEN [err |-> "AssertionError", theme |-> t]
    ELSE IF ~IsSeq(t.background_color)
    THEN [err |-> "TypeError", theme |-> t]
    ELSE LET c == t.background_color.v
         IN  [err |-> "none",
              theme |-> [t EXCEPT !.background_color =
                           Tup(<<c[1], c[2], c[3], RoundOfFloat(opacity.v[1] * 255)>>)]]

\* set_background_color_opacity without the lower limit of the range
SetOpacityNoLowerLimit(t, opacity) ==
    IF ~IsInstance(opacity, "float") \/ ~(opacity.v[1] <= FloatDen)
    THEN [err |-> "AssertionError", theme |-> t]
    ELSE IF ~IsSeq(t.background_color)
    THEN [err |-> "TypeError", theme |-> t]
    ELSE LET c == t.background_color.v
         IN  [err |-> "none",
              theme |-> [t EXCEPT !.background_color =
                           Tup(<<c[1], c[2], c[3], IntOfFloat(opacity.v[1] * 255)>>)]]

\* [err, theme]; indexing a BaseImage background raises TypeError
set_background_color_opacity(t, opacity) ==
    IF ~IsInstance(opacity, "float")
    THEN [err |-> "AssertionError", theme |-> t]
    ELSE IF ~(0 <= opacity.v[1] /\ opacity.v[1] <= FloatDen)
    THEN [err |-> "AssertionError", theme |-> t]
    ELSE IF ~IsSeq(t.background_color)
    THEN [err |-> "TypeError", theme |-> t]
    ELSE LET c == t.background_color.v
         IN  [err |-> "none",
              theme |-> [t EXCEPT !.background_color =
                           Tup(<<c[1], c[2], c[3], IntOfFloat(opacity.v[1] * 255)>>)]]

-----------------------------------------------------------------------------
(* The calls made on a Theme *)

ColorInputs ==
    {Tup(<<10, 20, 30>>), Lst(<<10, 20, 30>>), Tup(<<10, 20, 30, 0>>),
     Lst(<<10, 20, 30, 40>>), Tup(<<10, 20>>)}

Vector2Inputs ==
    {Tup(<<1, 2>>), Lst(<<3, 4>>), Tup(<<0, -1>>), Tup(<<1, 2, 3>>)}

NumberInputs == {IntV(0), IntV(3), IntV(-1), FloatV(3), StrV("3")}

\* the values a constructor call may give for the i-th parameter of
\* InitParams: values of the documented type and values that are not
InputsFor(i) ==
    LET types == InitParams[i].types
    IN  CASE types = <<"color">> -> ColorInputs
          [] types = <<"color_none">> -> ColorInputs \cup {NoneV}
          [] types = <<"color_image">> -> ColorInputs \cup {ImageV}
          [] types = <<"color_image_none">> -> ColorInputs \cup {NoneV, ImageV}
          [] types = <<"bool">> -> {BoolV(TRUE), BoolV(FALSE), IntV(1)}
          [] types = <<"int">> ->
               {IntV(0), IntV(25), IntV(MENUBAR_STYLE_SIMPLE), FloatV(FloatDen)}
          [] types = <<"int", "float">> ->
               IF InitParams[i].key = "widget_padding"
               THEN NumberInputs \cup {Tup(<<1, 2>>), Lst(<<1, 2, 3>>), Tup(<<1, 2, 3, 4>>)}
               ELSE NumberInputs
          [] types = <<"str">> -> {StrV("font"), NoneV, IntV(1)}
          [] types = <<"'str'">> -> {StrV("position-south"), StrV(POSITION_EAST)}
          [] types = <<"position">> ->
               {StrV("position-south"), StrV(POSITION_CENTER), StrV("bogus")}
          [] types = <<"alignment">> -> {StrV(ALIGN_LEFT), StrV("bogus")}
          [] types = <<"tuple2">> -> Vector2Inputs
          [] types = <<"Selection">> -> {SelectionV, IntV(1)}

\* keywords no _get call looks up, with the values given for them
ExtraKeywords ==
    {<<"widget_background_inflate", v>> : v \in Vector2Inputs}
        \cup {<<"bogus", IntV(1)>>}

Extend(f, k, v) == [x \in DOMAIN f \cup {k} |-> IF x = k THEN v ELSE f[x]]

EmptyMap == [x \in {} |-> NoneV]

\* a keyword that the constructor looks up, with a value given for it
KeywordChoices ==
    UNION { { <<InitParams[i].key, v>> : v \in InputsFor(i) } : i \in 1..Len(InitParams) }

\* keyword maps of at most n keywords that the constructor looks up
RECURSIVE KnownKeywords(_)
KnownKeywords(n) ==
    IF n = 0 THEN {EmptyMap}
    ELSE LET prev == KnownKeywords(n - 1)
         IN  prev \cup { IF c[1] \in DOMAIN f THEN f ELSE Extend(f, c[1], c[2])
                          : f \in prev, c \in KeywordChoices }

\* the keyword maps a constructor call is given: at most MaxKeys keywords
\* that the constructor looks up and at most one that it does not
AllKwargs ==
    LET known == KnownKeywords(MaxKeys)
    IN  known \cup { Extend(f, e[1], e[2]) : f \in known, e \in ExtraKeywords }

\* the background colours of the Themes whose opacity is set
BackgroundKwargs ==
    {EmptyMap} \cup { Extend(EmptyMap, "background_color", v) : v \in InputsFor(1) }

OpacityInputs ==
    { FloatV(n) : n \in -1..(FloatDen + 1) }
        \cup {IntV(0), IntV(1), IntV(2), BoolV(TRUE), StrV("1.0"), NoneV}

Ret(op, err, arg) == [op |-> op, err |-> err, arg |-> arg]

ThemeInit ==
    /\ theme = NoTheme
    /\ built = FALSE
    /\ kwargs = EmptyMap
    /\ ret = Ret("new", "none", NoneV)

\* theme = Theme(**kw), for some kw of the set inputs; one Theme object is
\* followed
Construct(inputs) ==
    /\ ret.op = "new"
    /\ \E kw \in inputs : \E r \in {Theme__init__(kw)} :
             /\ theme' = r.theme
             /\ built' = (r.err = "none")
             /\ ret' = Ret("__init__", r.err, NoneV)
             /\ kwargs' = kw
    /\ UNCHANGED barVars

\* theme.validate()
Validate ==
    /\ built
    /\ \E r \in {validate(theme)} :
           /\ theme' = r.theme
           /\ ret' = Ret("validate", r.err, NoneV)
    /\ UNCHANGED <<built, kwargs>>
    /\ UNCHANGED barVars

\* theme.set_background_color_opacity(opacity)
SetOpacity(opacity) ==
    /\ built
    /\ \E r \in {set_background_color_opacity(theme, opacity)} :
           /\ theme' = r.theme
           /\ ret' = Ret("set_background_color_opacity", r.err, opacity)
    /\ UNCHANGED <<built, kwargs>>
    /\ UNCHANGED barVars

-----------------------------------------------------------------------------
(* The parameters as the docstring of Theme documents them *)

\* the documented type of parameter a (":type a: ..." and the text of
\* ":param a: ...")
DocKind(a) ==
    CASE a = "background_color" -> "color_image"
      [] a = "widget_background_color" -> "color_image_none"
      [] a \in {"title_font_color", "widget_font_background_color"} -> "color_none"
      [] a \in {"cursor_color", "cursor_selection_color", "focus_background_color",
                "readonly_color", "readonly_selected_color", "scrollbar_color",
                "scrollbar_shadow_color", "scrollbar_slider_color", "selection_color",
                "surface_clear_color", "title_background_color", "title_shadow_color",
                "widget_font_color", "widget_shadow_color"} -> "color"
      [] a \in {"scrollarea_outer_margin", "title_offset", "widget_background_inflate",
                "widget_margin", "widget_offset"} -> "vector2"
      [] a \in {"menubar_close_button", "scrollbar_shadow", "title_bar_modify_scrollarea",
                "title_font_antialias", "title_shadow", "widget_font_antialias",
                "widget_font_background_color_from_menu", "widget_shadow"} -> "bool"
      [] a \in {"title_bar_style", "title_font_size", "widget_font_size"} -> "int"
      [] a \in {"scrollbar_shadow_offset", "scrollbar_slider_pad", "scrollbar_thick",
                "title_shadow_offset", "widget_shadow_offset"} -> "number"
      [] a = "widget_padding" -> "padding"
      [] a = "title_font" -> "str_none"
      [] a = "widget_font" -> "str"
      [] a \in {"scrollarea_position", "scrollbar_shadow_position",
                "title_shadow_position", "widget_shadow_position"} -> "position"
      [] a = "widget_alignment" -> "alignment"
      [] a = "widget_selection_effect" -> "Selection"

\* value is of the documented type kind
DocValid(kind, value) ==
    CASE kind = "color" -> assert_color(value)
      [] kind = "color_image" -> value.k = "BaseImage" \/ assert_color(value)
      [] kind = "color_none" -> value.k = "none" \/ assert_color(value)
      [] kind = "color_image_none" ->
           value.k \in {"BaseImage", "none"} \/ assert_color(value)
      [] kind = "vector2" -> assert_vector2(value)
      [] kind = "bool" -> value.k = "bool"
      [] kind = "int" -> value.k = "int"
      [] kind = "number" -> value.k \in {"int", "float"}
      [] kind = "padding" ->
           value.k \in {"int", "float"} \/ (IsSeq(value) /\ Len(value.v) \in 2..4)
      [] kind = "str" -> value.k = "str"
      [] kind = "str_none" -> value.k \in {"str", "none"}
      [] kind = "position" -> assert_position(value)
      [] kind = "alignment" -> assert_alignment(value)
      [] kind = "Selection" -> value.k = "Selection"

ColourAttrs ==
    {a \in Attrs : DocKind(a) \in {"color", "color_image", "color_none", "color_image_none"}}

Vector2Attrs == {a \in Attrs : DocKind(a) = "vector2"}

-----------------------------------------------------------------------------
(* Claims about Theme *)

Validated == ret.op = "validate" /\ ret.err = "none"

\* C1: construction fails with the unknown-parameter error (ValueError)
\* whenever the keyword map has a key that is no Theme parameter, whatever
\* documented parameters are given beside it with values of their type.
C1_UnknownKeyRejected ==
    ( /\ ret.op = "__init__"
      /\ \E k \in DOMAIN kwargs : k \notin Attrs
      /\ \A k \in DOMAIN kwargs \cap Attrs : DocValid(DocKind(k), kwargs[k]) )
    => (ret.err = "ValueError" /\ ~built)

\* C2: constructing a Theme with documented parameters, each with a value of
\* its documented type, succeeds and the attribute of the same name holds
\* the value given.
C2_DocumentedParamAccepted ==
    ( /\ ret.op = "__init__"
      /\ DOMAIN kwargs # {}
      /\ \A k \in DOMAIN kwargs : k \in Attrs /\ DocValid(DocKind(k), kwargs[k]) )
    => (ret.err = "none" /\ \A k \in DOMAIN kwargs : theme[k] = kwargs[k])

\* a colour with four channels as a tuple, other values as they are
FourChannels(c) ==
    IF IsSeq(c) /\ Len(c.v) = 3 THEN Tup(c.v \o <<255>>)
    ELSE IF IsSeq(c) THEN Tup(c.v)
    ELSE c

\* C3: a successful validate() leaves every colour attribute a 4-channel
\* tuple (or an image, or None, where these are allowed): (R,G,B) has become
\* (R,G,B,255) and four channels are kept, from a tuple or from a list.
C3_ColoursFourChannel ==
    [][ (ret'.op = "validate" /\ ret'.err = "none")
        => \A a \in ColourAttrs :
              /\ theme'[a] = FourChannels(theme[a])
              /\ \/ theme'[a].k = "tuple" /\ Len(theme'[a].v) = 4
                 \/ theme'[a].k = "BaseImage"
                      /\ a \in {"background_color", "widget_background_color"}
                 \/ theme'[a].k = "none"
                      /\ a \in {"widget_background_color", "widget_font_background_color"}
      ]_vars

\* every attribute but focus_background_color passes validate(): validate()
\* succeeds once an opaque focus colour is put in
OtherFieldsValid(t) ==
    validate([t EXCEPT !.focus_background_color = Tup(<<255, 255, 255, 255>>)]).err = "none"

\* the alpha of a colour: 255 when it has 3 channels
AlphaOf(c) == IF Len(c.v) = 4 THEN c.v[4] ELSE 255

\* C4: on a Theme whose other attributes are valid, validate() fails if and
\* only if the alpha of focus_background_color is 0; a 3-channel colour
\* counts as alpha 255 and passes.
C4_ValidateFailsIffFocusTransparent ==
    [][ (ret'.op = "validate" /\ OtherFieldsValid(theme))
        => ((ret'.err # "none") <=> (AlphaOf(theme.focus_background_color) = 0))
      ]_vars

\* C4 witness: validate() has failed on a Theme that is valid but for its
\* fully transparent focus colour
C4_Witness ==
    /\ ret.op = "validate" /\ ret.err = "AssertionError"
    /\ theme.focus_background_color.v[4] = 0
    /\ OtherFieldsValid(theme)

IsOpacityCall(r) == r.op = "set_background_color_opacity"

\* the opacity argument is a number in [0, 1]
InUnitInterval(o) ==
    \/ o.k = "int" /\ o.v[1] \in {0, 1}
    \/ o.k = "float" /\ 0 <= o.v[1] /\ o.v[1] <= FloatDen

\* round(o * 255)
Round255(o) == IF o.k = "int" THEN o.v[1] * 255 ELSE RoundOfFloat(o.v[1] * 255)

\* C5 as stated: for every opacity o in [0, 1], end points included,
\* set_background_color_opacity(o) succeeds and leaves the background alpha
\* equal to round(o * 255).
C5_OpacityRounded ==
    [][ (IsOpacityCall(ret') /\ InUnitInterval(ret'.arg))
        => /\ ret'.err = "none"
           /\ IsSeq(theme'.background_color)
           /\ AlphaOf(theme'.background_color) = Round255(ret'.arg)
      ]_vars

\* C5 amended: for every float o in [0.0, 1.0], end points included, on a
\* Theme whose background is a colour, the call succeeds and leaves the
\* background alpha equal to int(o * 255), o * 255 truncated.
C5_OpacityTruncated ==
    [][ ( /\ IsOpacityCall(ret') /\ ret'.arg.k = "float" /\ InUnitInterval(ret'.arg)
          /\ IsSeq(theme.background_color) )
        => /\ ret'.err = "none"
           /\ theme'.background_color.k = "tuple"
           /\ Len(theme'.background_color.v) = 4
           /\ theme'.background_color.v[4] = (ret'.arg.v[1] * 255) \div FloatDen
      ]_vars

\* C5 witness: opacity 1/FloatDen has been set and the alpha is the
\* truncated product, which the rounded one differs from
C5_Witness ==
    /\ IsOpacityCall(ret) /\ ret.err = "none" /\ ret.arg = FloatV(1)
    /\ theme.background_color.v[4] = 255 \div FloatDen
    /\ theme.background_color.v[4] # Round255(ret.arg)

\* the opacity argument is below 0, above 1, or no number
OutsideUnitInterval(o) ==
    \/ o.k \notin {"int", "float", "bool"}
    \/ o.k = "int" /\ (o.v[1] < 0 \/ o.v[1] > 1)
    \/ o.k = "float" /\ (o.v[1] < 0 \/ o.v[1] > FloatDen)

\* C6: set_background_color_opacity(o) fails for every o below 0 or above 1
\* and for every o that is no number, and a failing call leaves the Theme
\* as it was.
C6_BadOpacityRejected ==
    [][ (IsOpacityCall(ret') => (ret'.err # "none" => theme' = theme))
        /\ ((IsOpacityCall(ret') /\ OutsideUnitInterval(ret'.arg)) => ret'.err # "none")
      ]_vars

\* C6 witness: a call with an opacity below 0 has failed on a Theme
C6_Witness ==
    /\ IsOpacityCall(ret) /\ ret.err = "AssertionError" /\ ret.arg = FloatV(-1)
    /\ built

\* C7 as stated: after a successful validate() every 2-element vector
\* attribute has both components >= 0.
C7_AllVectorsNonNegative ==
    Validated => \A a \in Vector2Attrs : theme[a].v[1] >= 0 /\ theme[a].v[2] >= 0

\* C7 amended: after a successful validate() scrollarea_outer_margin and
\* widget_offset have both components >= 0 (the other three vectors are
\* not checked).
C7_CheckedVectorsNonNegative ==
    Validated => \A a \in {"scrollarea_outer_margin", "widget_offset"} :
                    theme[a].v[1] >= 0 /\ theme[a].v[2] >= 0

\* C7 witness: a Theme given a widget_offset has validated, with the
\* default title_offset (5, -1)
C7_Witness ==
    /\ Validated
    /\ "widget_offset" \in DOMAIN kwargs
    /\ theme.title_offset = Tup(<<5, -1>>)

-----------------------------------------------------------------------------
(* MenuBar: geometry *)

\* Menubar operation modes
_MODE_CLOSE == 1020
_MODE_BACK == 1021

\* A coordinate is kept in hundredths of a pixel, which holds the products
\* by 0.6 and 0.91 of _render exactly.
Px == 100

\* int(x) of a coordinate x: truncation towards zero, in pixels
IntOf(c) == IF c >= 0 THEN c \div Px ELSE -((-c) \div Px)

\* C integer division, as pygame.Rect uses for its centre
TruncDiv(a, b) == IF a >= 0 THEN a \div b ELSE -((-a) \div b)

\* a polygon or a rect attribute that is None, or set
NoPoints == [none |-> TRUE, pts |-> <<>>]
Points(pts) == [none |-> FALSE, pts |-> pts]
NoRect == [none |-> TRUE, x |-> 0, y |-> 0, w |-> 0, h |-> 0]
Rect(x, y, w, h) == [none |-> FALSE, x |-> x, y |-> y, w |-> w, h |-> h]

\* pygame.Rect attributes
RectLeft(r) == r.x
RectTop(r) == r.y
RectRight(r) == r.x + r.w
RectBottom(r) == r.y + r.h
RectCenterx(r) == r.x + TruncDiv(r.w, 2)
RectCentery(r) == r.y + TruncDiv(r.h, 2)

\* the number of characters of the titles the model uses
StrLen(str) ==
    CASE str = "" -> 0
      [] str = "5" -> 1
      [] str = "A" -> 1
      [] str = "AB" -> 2

\* str(title)
StrOf(title) == IF title.k = "str" THEN title.s ELSE "5"

\* the width of a rendered character, in pixels
CharWidth == 12

\* Widget._render_string(title, color).get_size(): the size of the rendered
\* title, whose height is the height of the font
SurfaceSize(b) == [w |-> CharWidth * StrLen(b.title), h |-> b.font_height]

\* a box mode that is left unset inside a submenu
BoxModeUnsetInSubmenu(menu_prev_condition) ==
    IF menu_prev_condition THEN _MODE_CLOSE ELSE 0

\* a box mode that ignores the navigation depth
BoxModeAlwaysClose(menu_prev_condition) == _MODE_CLOSE

\* _render: "Update box mode"
BoxModeFor(menu_prev_condition) ==
    IF menu_prev_condition THEN _MODE_CLOSE ELSE _MODE_BACK

\* the geometry of the SIMPLE style given to every style
StyleGeometryAllSimple(b, r) ==
    [valid |-> TRUE,
     pts |-> << <<Px * r.x, Px * r.y>>, <<Px * (r.x + b.width - 1), Px * r.y>>,
                <<Px * (r.x + b.width - 1), Px * (r.y + r.h)>>,
                <<Px * r.x, Px * (r.y + r.h)>> >>,
     cross |-> Px * r.h, dy |-> 0, bgmenu |-> FALSE]

\* _render: the polygon, the cross size, dy and the background_menu flag of
\* the title colour check for the style of bar b, whose rect r has the size
\* of the rendered title; valid is FALSE for a style that _render rejects
StyleGeometry(b, r) ==
    LET x == Px * r.x
        y == Px * r.y
        right == Px * (r.x + b.width - 1)
        h06 == 60 * r.h
        h091 == 91 * r.h
        hh == Px * r.h
        t5 == Px * (r.x + r.w + 5 + b.offsetx)
        t25 == Px * (r.x + r.w + 25 + b.offsetx)
        G(pts, cross, dy, bgmenu) ==
            [valid |-> TRUE, pts |-> pts, cross |-> cross, dy |-> dy, bgmenu |-> bgmenu]
    IN  CASE b.style = MENUBAR_STYLE_ADAPTIVE ->
               G(<< <<x, y>>, <<right, y>>, <<right, y + h06>>, <<t25, y + h06>>,
                    <<t5, y + hh>>, <<x, y + hh>> >>, h06, 0, FALSE)
          [] b.style = MENUBAR_STYLE_SIMPLE ->
               G(<< <<x, y>>, <<right, y>>, <<right, y + hh>>, <<x, y + hh>> >>,
                 hh, 0, FALSE)
          [] b.style = MENUBAR_STYLE_TITLE_ONLY ->
               G(<< <<x, y>>, <<t5, y>>, <<t5, y + hh>>, <<x, y + hh>> >>,
                 h06, 0, FALSE)
          [] b.style = MENUBAR_STYLE_TITLE_ONLY_DIAGONAL ->
               G(<< <<x, y>>, <<t25, y>>, <<t5, y + hh>>, <<x, y + hh>> >>,
                 h06, 0, FALSE)
          [] b.style = MENUBAR_STYLE_NONE ->
               G(<< <<x, y>>, <<right, y>> >>, h06, 0, TRUE)
          [] b.style = MENUBAR_STYLE_UNDERLINE ->
               G(<< <<x, y + h091 + Px * 4>>, <<right, y + h091 + Px * 4>>,
                    <<right, y + hh + Px * 4>>, <<x, y + hh + Px * 4>> >>,
                 h06, 4, TRUE)
          [] b.style = MENUBAR_STYLE_UNDERLINE_TITLE ->
               G(<< <<x, y + h091 + Px * 3>>, <<t5, y + h091 + Px * 3>>,
                    <<t5, y + hh + Px * 3>>, <<x, y + hh + Px * 3>> >>,
                 h06, 3, TRUE)
          [] OTHER ->
               [valid |-> FALSE, pts |-> <<>>, cross |-> 0, dy |-> 0, bgmenu |-> FALSE]

\* _render: the back-box rect, from the rect r of the bar and the cross size
BackboxRect(b, m, r, cross_size) ==
    LET backbox_margin == 4
        scroll_delta == IF b.floating THEN m.width - m.inner_width ELSE 0
    IN  Rect(IntOf(Px * (r.x + b.width + backbox_margin - scroll_delta) - cross_size),
             IntOf(Px * (r.y + backbox_margin)),
             IntOf(cross_size - Px * 2 * backbox_margin),
             IntOf(cross_size - Px * 2 * backbox_margin))

\* _render: the glyph of the back-box: a cross in CLOSE mode, a back arrow in
\* BACK mode; in another mode _backbox_pos keeps the value old
BackboxGlyph(box_mode, br, old) ==
    LET l == RectLeft(br)
        t == RectTop(br)
        r == RectRight(br)
        bo == RectBottom(br)
        cx == RectCenterx(br)
        cy == RectCentery(br)
    IN  IF box_mode = _MODE_CLOSE
        THEN Points(<< <<l + 4, t + 4>>, <<cx, cy>>, <<r - 4, t + 4>>, <<cx, cy>>,
                       <<r - 4, bo - 4>>, <<cx, cy>>, <<l + 4, bo - 4>>, <<cx, cy>>,
                       <<l + 4, t + 4>> >>)
        ELSE IF box_mode = _MODE_BACK
        THEN Points(<< <<l + 5, cy>>, <<cx, t + 5>>, <<cx, cy - 2>>, <<r - 5, cy - 2>>,
                       <<r - 5, cy + 2>>, <<cx, cy + 2>>, <<cx, bo - 5>>, <<l + 5, cy>> >>)
        ELSE old

-----------------------------------------------------------------------------
(* MenuBar: construction, rendering, title *)

\* the values Widget._render_hash_changed hashes for _render
HashInputs(b, m, menu_prev_condition) ==
    [valid |-> TRUE, id |-> m.id, x |-> b.rect.x, y |-> b.rect.y, title |-> b.title,
     color |-> b.font_selected_color, prev |-> menu_prev_condition,
     visible |-> b.visible]

\* the _last_render_hash of a widget that has not been rendered
NoHash ==
    [valid |-> FALSE, id |-> "", x |-> 0, y |-> 0, title |-> "", color |-> <<>>,
     prev |-> FALSE, visible |-> FALSE]

\* Widget._render_hash_changed: whether the inputs differ from the stored
\* ones (they are stored when they do)
_render_hash_changed(last_render_hash, inputs) == last_render_hash # inputs

\* MenuBar.__init__, which ends in set_title (no menu is set yet)
MenuBar__init__(title, width, background_color, back_box, mode, modify_scrollarea, offsetx, offsety, font) ==
    [ backbox |-> back_box,
      backbox_border_width |-> 1,
      backbox_pos |-> NoPoints,
      backbox_rect |-> NoRect,
      background_color |-> background_color,
      box_mode |-> 0,
      modify_scrollarea |-> modify_scrollarea,
      offsetx |-> offsetx,
      offsety |-> offsety,
      polygon_pos |-> NoPoints,
      style |-> mode,
      title |-> StrOf(title),
      width |-> width,
      \* the fields of Widget
      attached |-> FALSE,
      rect |-> Rect(0, 0, 0, 0),
      last_render_hash |-> NoHash,
      font_selected_color |-> font.selected_color,
      font_color |-> font.color,
      font_height |-> font.height,
      visible |-> TRUE,
      floating |-> FALSE,
      readonly |-> FALSE,
      mouse_enabled |-> TRUE,
      joystick_enabled |-> TRUE,
      touchscreen_enabled |-> TRUE ]

\* a title colour check that takes a difference of exactly tol for similar
CheckTitleColorInclusive(b, m, background_menu) ==
    LET c_back == IF background_menu /\ b.attached THEN m.background_color
                  ELSE b.background_color
        Dif(i) == IF c_back.v[i] >= b.font_color[i] THEN c_back.v[i] - b.font_color[i]
                  ELSE b.font_color[i] - c_back.v[i]
    IN  IF ~IsSeq(c_back) THEN FALSE
        ELSE Dif(1) <= 5 /\ Dif(2) <= 5 /\ Dif(3) <= 5

\* MenuBar._check_title_color: whether the warning is emitted
_check_title_color(b, m, background_menu) ==
    LET c_back == IF background_menu /\ b.attached THEN m.background_color
                  ELSE b.background_color
        tol == 5
        Dif(i) == IF c_back.v[i] >= b.font_color[i] THEN c_back.v[i] - b.font_color[i]
                  ELSE b.font_color[i] - c_back.v[i]
    IN  IF ~IsSeq(c_back) THEN FALSE
        ELSE Dif(1) < tol /\ Dif(2) < tol /\ Dif(3) < tol

\* a recomputation that keeps the height of a rect already rendered, so that
\* dy is added again
RecomputeAccumulating(b, m, menu_prev_condition) ==
    LET size == SurfaceSize(b)
        b1 == [b EXCEPT !.box_mode = BoxModeFor(menu_prev_condition),
                        !.rect.w = size.w,
                        !.rect.h = IF @ = 0 THEN size.h ELSE @]
        g == StyleGeometry(b1, b1.rect)
        b2 == [b1 EXCEPT !.polygon_pos = Points(g.pts), !.rect.h = @ + g.dy]
        br == BackboxRect(b2, m, b2.rect, g.cross)
        warned == g.valid /\ _check_title_color(b2, m, g.bgmenu)
    IN  IF ~g.valid THEN [bar |-> b1, result |-> "ValueError", warned |-> FALSE]
        ELSE IF ~b2.backbox THEN [bar |-> b2, result |-> "rendered", warned |-> warned]
        ELSE [bar |-> [b2 EXCEPT !.backbox_rect = br,
                                 !.backbox_pos = BackboxGlyph(b2.box_mode, br, @)],
              result |-> "rendered", warned |-> warned]

\* _render from "Update box mode" on: the recomputation. The result is
\* "rendered", or "ValueError" for a style that is none of the seven, which
\* is raised with the box mode and the rect size already assigned; warned
\* tells whether the title colour check emitted its warning.
Recompute(b, m, menu_prev_condition) ==
    LET size == SurfaceSize(b)
        b1 == [b EXCEPT !.box_mode = BoxModeFor(menu_prev_condition),
                        !.rect.w = size.w, !.rect.h = size.h]
        g == StyleGeometry(b1, b1.rect)
        b2 == [b1 EXCEPT !.polygon_pos = Points(g.pts), !.rect.h = @ + g.dy]
        br == BackboxRect(b2, m, b2.rect, g.cross)
        warned == g.valid /\ _check_title_color(b2, m, g.bgmenu)
    IN  IF ~g.valid THEN [bar |-> b1, result |-> "ValueError", warned |-> FALSE]
        ELSE IF ~b2.backbox THEN [bar |-> b2, result |-> "rendered", warned |-> warned]
        ELSE [bar |-> [b2 EXCEPT !.backbox_rect = br,
                                 !.backbox_pos = BackboxGlyph(b2.box_mode, br, @)],
              result |-> "rendered", warned |-> warned]

\* _render recomputing whatever the hash says
RenderIgnoringHash(b, m) ==
    IF ~b.attached THEN [bar |-> b, result |-> "no menu", warned |-> FALSE]
    ELSE Recompute([b EXCEPT !.last_render_hash = HashInputs(b, m, m.depth = 0)],
                   m, m.depth = 0)

\* MenuBar._render: [bar, result]; the result is "no menu" (None is returned
\* at once), "unchanged" (True is returned), "rendered" or "ValueError"
_render(b, m) ==
    IF ~b.attached THEN [bar |-> b, result |-> "no menu", warned |-> FALSE]
    ELSE LET menu_prev_condition == m.depth = 0
             inputs == HashInputs(b, m, menu_prev_condition)
         IN  IF ~_render_hash_changed(b.last_render_hash, inputs)
             THEN [bar |-> b, result |-> "unchanged", warned |-> FALSE]
             ELSE Recompute([b EXCEPT !.last_render_hash = inputs], m,
                            menu_prev_condition)

\* MenuBar.set_title: [bar, result], the result being that of the render pass
\* it ends in when the bar has a menu
set_title(b, m, title, offsetx, offsety) ==
    LET b1 == [b EXCEPT !.title = StrOf(title), !.offsety = offsety,
                        !.offsetx = offsetx]
    IN  IF b1.attached THEN _render(b1, m) ELSE [bar |-> b1, result |-> "no menu", warned |-> FALSE]

-----------------------------------------------------------------------------
(* The calls made on a MenuBar and on its Menu *)

\* the seven styles and a value that is none of them
StyleInputs == MenubarStyles \cup {999}
TitleInputs == {StrV("A"), StrV("AB"), IntV(5)}
WidthInputs == {100, 200}
OffsetInputs == {0, 5}
PositionInputs == {0, 10}
FontInputs == {[selected_color |-> <<255, 255, 255>>, color |-> <<255, 255, 255>>, height |-> 22]}

\* the outcome of a call on the bar: its result, the position and the events
\* it was given, the number of apply() calls and of apply_update_callbacks()
\* calls it made, the numbers it returned, what it drew and whether it
\* emitted the title colour warning
BRet(op, result) ==
    [op |-> op, result |-> result, position |-> "", events |-> <<>>, applied |-> 0,
     callbacks |-> 0, value |-> <<>>, drawn |-> {}, warned |-> FALSE]

\* no render pass has been made
NotPassed == NoHash

\* the Menu: its id, the number of submenus open (Menu._top._prev is set when
\* it is not 0), whether it has a close action (Menu._onclose), and its outer
\* and inner width, and the background colour of its theme
MenuInit(onclose) ==
    [id |-> "menu", depth |-> 0, onclose |-> onclose, width |-> 300, inner_width |-> 280,
     background_color |-> Tup(<<220, 220, 220, 255>>)]

BarInit ==
    /\ \E title \in {StrV("A")}, width \in WidthInputs, back_box \in BOOLEAN,
          mode \in StyleInputs, offsetx \in OffsetInputs, font \in FontInputs :
         bar = MenuBar__init__(title, width, Tup(<<70, 70, 70>>), back_box, mode, TRUE,
                               offsetx, 0, font)
    /\ menu = MenuInit(TRUE)
    /\ bret = BRet("__init__", "none")
    /\ passed = NotPassed

\* the MenuBar of the specifications that follow a Theme only
BarIdle ==
    /\ bar = MenuBar__init__(StrV("A"), 100, Tup(<<70, 70, 70>>), FALSE,
                             MENUBAR_STYLE_ADAPTIVE, TRUE, 0, 0,
                             [selected_color |-> <<255, 255, 255>>,
                              color |-> <<255, 255, 255>>, height |-> 22])
    /\ menu = MenuInit(TRUE)
    /\ bret = BRet("__init__", "none")
    /\ passed = NotPassed

\* the hash inputs of a render pass made now, for the history variable
PassNow(b) == IF b.attached THEN HashInputs(b, menu, menu.depth = 0) ELSE passed

\* Widget.set_menu(menu)
SetMenu ==
    /\ ~bar.attached
    /\ bar' = [bar EXCEPT !.attached = TRUE]
    /\ bret' = BRet("set_menu", "none")
    /\ UNCHANGED <<menu, passed>>
    /\ UNCHANGED themeVars

\* a render pass: bar._render()
Render ==
    /\ \E r \in {_render(bar, menu)} :
         /\ bar' = r.bar
         /\ bret' = [BRet("_render", r.result) EXCEPT !.warned = r.warned]
    /\ passed' = PassNow(bar)
    /\ UNCHANGED menu
    /\ UNCHANGED themeVars

\* bar.set_title(title, offsetx, offsety)
SetTitle(title, offsetx, offsety) ==
    /\ \E r \in {set_title(bar, menu, title, offsetx, offsety)} :
         /\ bar' = r.bar
         /\ bret' = [BRet("set_title", r.result) EXCEPT !.warned = r.warned]
    /\ passed' = PassNow([bar EXCEPT !.title = StrOf(title)])
    /\ UNCHANGED menu
    /\ UNCHANGED themeVars

\* Widget.set_position(x, y)
SetPosition(x, y) ==
    /\ bar' = [bar EXCEPT !.rect.x = x, !.rect.y = y]
    /\ bret' = BRet("set_position", "none")
    /\ UNCHANGED <<menu, passed>>
    /\ UNCHANGED themeVars

\* Widget.show() and Widget.hide()
SetVisible(v) ==
    /\ bar.visible # v
    /\ bar' = [bar EXCEPT !.visible = v]
    /\ bret' = BRet(IF v THEN "show" ELSE "hide", "none")
    /\ UNCHANGED <<menu, passed>>
    /\ UNCHANGED themeVars

\* the Menu opens a submenu (d = 1) or goes back from one (d = -1)
Navigate(d) ==
    /\ menu.depth + d \in 0..MaxDepth
    /\ menu' = [menu EXCEPT !.depth = @ + d]
    /\ bret' = BRet("navigate", "none")
    /\ UNCHANGED <<bar, passed>>
    /\ UNCHANGED themeVars

BarNext ==
    \/ SetMenu
    \/ Render
    \/ \E title \in TitleInputs, offsetx \in OffsetInputs : SetTitle(title, offsetx, 0)
    \/ \E x \in PositionInputs : SetPosition(x, 0)
    \/ \E v \in BOOLEAN : SetVisible(v)
    \/ \E d \in {-1, 1} : Navigate(d)

\* a MenuBar is built, given its Menu, rendered, retitled, moved, shown and
\* hidden while the Menu opens and leaves submenus
BarSpecInit == BarInit /\ ThemeInit
SpecBar == BarSpecInit /\ [][BarNext]_vars

-----------------------------------------------------------------------------
(* Specifications of the Theme *)

ThemeSpecInit == ThemeInit /\ BarIdle

ThemeNext ==
    \/ Construct(AllKwargs)
    \/ Validate

\* a Theme is built from any keyword map and validated
SpecTheme == ThemeSpecInit /\ [][ThemeNext]_vars

OpacityNext ==
    \/ Construct(BackgroundKwargs)
    \/ Validate
    \/ \E o \in OpacityInputs : SetOpacity(o)

\* a Theme is built with some background colour, validated at any time, and
\* its background opacity is set any number of times
SpecOpacity == ThemeSpecInit /\ [][OpacityNext]_vars

-----------------------------------------------------------------------------
(* Claims about the MenuBar *)

\* the last call was a render pass on a bar that has a menu: _render(), or
\* the one set_title ends in
AfterRenderPass ==
    /\ bar.attached
    /\ bret.op \in {"_render", "set_title"}

\* the point count documented for each of the seven styles
PointCount(style) ==
    IF style = MENUBAR_STYLE_ADAPTIVE THEN 6
    ELSE IF style = MENUBAR_STYLE_NONE THEN 2
    ELSE 4

\* C8: after a render pass on a bar attached to a menu, the stored polygon has
\* 6 points for ADAPTIVE, 2 for NONE and 4 for the other five styles,
\* whatever the title, the position and the bar width
C8_PolygonPointCount ==
    (AfterRenderPass /\ bar.style \in MenubarStyles)
        => /\ ~bar.polygon_pos.none
           /\ Len(bar.polygon_pos.pts) = PointCount(bar.style)

\* an ADAPTIVE bar that was retitled and moved holds 6 points after a
\* recomputing render pass
C8_Witness ==
    /\ AfterRenderPass
    /\ bret.result = "rendered"
    /\ bar.style = MENUBAR_STYLE_ADAPTIVE
    /\ bar.title = "AB"
    /\ bar.rect.x = 10
    /\ bar.width = 200
    /\ Len(bar.polygon_pos.pts) = 6

\* what a render pass computes
Geometry(b) == <<b.polygon_pos, b.rect, b.box_mode, b.backbox_rect, b.backbox_pos>>

\* C9: a render pass whose inputs equal those of the previous render pass
\* reports "unchanged" and leaves the polygon, the rect, the box mode, the
\* back-box rect and the glyph as they were
C9_SameInputsUnchanged ==
    [][ ( /\ bar.attached
          /\ bret'.op \in {"_render", "set_title"}
          /\ passed.valid
          /\ passed' = passed )
        => ( /\ bret'.result = "unchanged"
             /\ Geometry(bar') = Geometry(bar) ) ]_vars

\* a rendered bar with a back-box on which a render pass was repeated
C9_Witness ==
    /\ AfterRenderPass
    /\ bret.result = "unchanged"
    /\ passed.valid
    /\ bar.backbox
    /\ ~bar.polygon_pos.none
    /\ ~bar.backbox_pos.none

\* C10: after a render pass that follows the navigation changes of the menu,
\* a bar of one of the seven styles with the back-box enabled has box mode
\* CLOSE and a glyph of 9 points at the navigation root, and box mode BACK and
\* a glyph of 8 points inside a submenu
C10_BoxModeFollowsDepth ==
    (AfterRenderPass /\ bar.backbox /\ bar.style \in MenubarStyles)
        => IF menu.depth = 0
           THEN bar.box_mode = _MODE_CLOSE /\ Len(bar.backbox_pos.pts) = 9
           ELSE bar.box_mode = _MODE_BACK /\ Len(bar.backbox_pos.pts) = 8

\* a bar rendered in the deepest submenu shows the back arrow
C10_Witness ==
    /\ AfterRenderPass
    /\ bar.backbox
    /\ bar.style \in MenubarStyles
    /\ menu.depth = MaxDepth
    /\ bar.box_mode = _MODE_BACK
    /\ Len(bar.backbox_pos.pts) = 8

\* C11 as stated: in every reachable state of a MenuBar, from construction
\* onward, the box mode is one of CLOSE and BACK
C11_BoxModeAlwaysSet ==
    bar.box_mode \in {_MODE_CLOSE, _MODE_BACK}

\* C11 amended: the box mode is 0 from construction until the first render
\* recomputation on the bar attached to a menu, and one of CLOSE and BACK in
\* every state from then on
C11_BoxModeSetByRender ==
    IF bar.last_render_hash.valid
    THEN bar.box_mode \in {_MODE_CLOSE, _MODE_BACK}
    ELSE bar.box_mode = 0

\* a render recomputation made in a submenu has set the box mode
C11_Witness ==
    /\ bar.attached
    /\ bar.last_render_hash.valid
    /\ ~bar.last_render_hash.prev
    /\ bar.box_mode = _MODE_BACK

-----------------------------------------------------------------------------
(* MenuBar: events and drawing *)

JOY_BUTTON_BACK == 1

\* a back-box shown whenever it was requested and the mouse is enabled
BackboxVisibleWhenRequested(b, m) == b.mouse_enabled /\ b.backbox

\* MenuBar._backbox_visible
_backbox_visible(b, m) ==
    /\ b.mouse_enabled
    /\ b.backbox
    /\ ~(b.box_mode = _MODE_CLOSE /\ b.attached /\ ~m.onclose)

\* bool(rect) of a _backbox_rect: None is false, and so is a pygame.Rect of
\* width or height 0
RectTruth(r) == ~r.none /\ r.w # 0 /\ r.h # 0

\* pygame.Rect.collidepoint: the right and the bottom edge are outside
collidepoint(r, pos) ==
    /\ RectLeft(r) <= pos[1] /\ pos[1] < RectRight(r)
    /\ RectTop(r) <= pos[2] /\ pos[2] < RectBottom(r)

\* an event: its type, its button (mouse, joystick) and its position in
\* pixels (mouse; for a touch, what get_finger_pos gives)
Event(type, button, pos) == [type |-> type, button |-> button, pos |-> pos]

\* update: whether the loop body calls apply() for event e
Applies(b, e) ==
    IF e.type = "MOUSEBUTTONUP" /\ b.mouse_enabled /\ e.button \in {1, 2, 3}
    THEN RectTruth(b.backbox_rect) /\ collidepoint(b.backbox_rect, e.pos)
    ELSE IF e.type = "JOYBUTTONDOWN" /\ b.joystick_enabled
    THEN e.button = JOY_BUTTON_BACK
    ELSE IF e.type = "FINGERUP" /\ b.touchscreen_enabled /\ b.attached
    THEN RectTruth(b.backbox_rect) /\ collidepoint(b.backbox_rect, e.pos)
    ELSE FALSE

\* an update that handles the events of a readonly bar
UpdateOfReadonly(b, events) ==
    IF ~b.visible
    THEN [result |-> "False", applied |-> 0, callbacks |-> 0]
    ELSE LET n == Cardinality({i \in 1..Len(events) : Applies(b, events[i])})
         IN  [result |-> "None", applied |-> n, callbacks |-> IF n > 0 THEN 1 ELSE 0]

\* MenuBar.update: [result, applied, callbacks]. The result is "False" for a
\* readonly or hidden bar; otherwise the function ends without a return
\* statement and the result is "None".
update(b, events) ==
    IF b.readonly \/ ~b.visible
    THEN [result |-> "False", applied |-> 0, callbacks |-> 0]
    ELSE LET n == Cardinality({i \in 1..Len(events) : Applies(b, events[i])})
         IN  [result |-> "None", applied |-> n, callbacks |-> IF n > 0 THEN 1 ELSE 0]

\* MenuBar._draw: [err, drawn]; len(None) raises TypeError on a bar that has
\* no polygon, and so does pygame.draw.rect on a back-box rect that is None
_draw(b, m) ==
    IF b.polygon_pos.none THEN [err |-> "TypeError", drawn |-> {}]
    ELSE IF _backbox_visible(b, m) /\ b.backbox_rect.none
    THEN [err |-> "TypeError",
          drawn |-> IF Len(b.polygon_pos.pts) > 2 THEN {"polygon"} ELSE {}]
    ELSE [err |-> "none",
          drawn |-> (IF Len(b.polygon_pos.pts) > 2 THEN {"polygon"} ELSE {})
                      \cup (IF _backbox_visible(b, m)
                            THEN {"backbox rect", "backbox glyph"} ELSE {})
                      \cup {"title"}]

\* the events of a batch, with a point inside the back-box rect of the bars
\* followed, a point on its right edge and a point outside
MaxEvents == 2
EventInputs ==
    { Event("MOUSEBUTTONUP", 1, <<92, 6>>), Event("MOUSEBUTTONUP", 3, <<92, 6>>),
      Event("MOUSEBUTTONUP", 4, <<92, 6>>), Event("MOUSEBUTTONUP", 1, <<95, 6>>),
      Event("JOYBUTTONDOWN", JOY_BUTTON_BACK, <<0, 0>>),
      Event("JOYBUTTONDOWN", 0, <<0, 0>>),
      Event("FINGERUP", 0, <<92, 6>>), Event("FINGERUP", 0, <<0, 0>>) }

RECURSIVE Batches(_)
Batches(n) ==
    IF n = 0 THEN {<<>>}
    ELSE LET prev == Batches(n - 1)
         IN  prev \cup {Append(b, e) : b \in {x \in prev : Len(x) = n - 1}, e \in EventInputs}

\* the batches of at most MaxEvents events
EventBatches == Batches(MaxEvents)

\* bar.update(events), for some batch events of the set batches. update leaves
\* the bar and the menu as they are, so a batch that follows another one
\* reaches no state of the bar that the first did not: one batch is followed
\* between two other calls.
Update(batches) ==
    /\ bret.op # "update"
    /\ \E events \in batches : \E r \in {update(bar, events)} :
         bret' = [BRet("update", r.result) EXCEPT !.events = events,
                                                  !.applied = r.applied,
                                                  !.callbacks = r.callbacks]
    /\ UNCHANGED <<bar, menu, passed>>
    /\ UNCHANGED themeVars

\* Widget.draw(surface): a render pass, then _draw
Draw ==
    /\ \E r \in {_render(bar, menu)} :
         /\ bar' = r.bar
         /\ IF r.result = "ValueError" THEN bret' = BRet("draw", "ValueError")
            ELSE \E d \in {_draw(r.bar, menu)} :
                   bret' = [BRet("draw", d.err) EXCEPT !.drawn = d.drawn,
                                                       !.warned = r.warned]
    /\ passed' = PassNow(bar)
    /\ UNCHANGED menu
    /\ UNCHANGED themeVars

\* a bar of 100 pixels at (0, 0) with any controls enabled, on a menu at the
\* root or in a submenu, with a close action or none
EventsInit ==
    /\ \E back_box \in BOOLEAN, mouse \in BOOLEAN, joystick \in BOOLEAN, touch \in BOOLEAN,
          readonly \in BOOLEAN :
         bar = [MenuBar__init__(StrV("A"), 100, Tup(<<70, 70, 70>>), back_box,
                                MENUBAR_STYLE_ADAPTIVE, TRUE, 0, 0,
                                [selected_color |-> <<255, 255, 255>>,
                              color |-> <<255, 255, 255>>, height |-> 22])
                  EXCEPT !.mouse_enabled = mouse, !.joystick_enabled = joystick,
                         !.touchscreen_enabled = touch, !.readonly = readonly]
    /\ \E onclose \in BOOLEAN, depth \in {0, 1} :
         menu = [MenuInit(onclose) EXCEPT !.depth = depth]
    /\ bret = BRet("__init__", "none")
    /\ passed = NotPassed

EventsSpecInit == EventsInit /\ ThemeInit

EventsNext ==
    \/ SetMenu
    \/ Render
    \/ Draw
    \/ \E v \in BOOLEAN : SetVisible(v)
    \/ Update(EventBatches)

\* a MenuBar is given its Menu, rendered, drawn, shown and hidden, and
\* receives batches of events
SpecEvents == EventsSpecInit /\ [][EventsNext]_vars

-----------------------------------------------------------------------------
(* Claims about events and drawing *)

\* the last call was update(events), which leaves the bar as it was
AfterUpdate == bret.op = "update"

\* event e is released at a point inside the back-box rect of the bar
InsideBackbox(e) ==
    RectTruth(bar.backbox_rect) /\ collidepoint(bar.backbox_rect, e.pos)

\* the back-box is interactive as the specification states it
Interactive ==
    /\ bar.mouse_enabled
    /\ bar.backbox
    /\ ~(bar.box_mode = _MODE_CLOSE /\ ~menu.onclose)

\* C12: a batch of mouse-button releases and touch releases inside the
\* back-box rect triggers the callback only when the back-box is interactive:
\* mouse input enabled, a back-box requested, and not (the bar at root level
\* and the menu without a close action); in every other state it triggers
\* nothing
C12_ClickOnlyWhenInteractive ==
    ( /\ AfterUpdate
      /\ \A i \in 1..Len(bret.events) :
            /\ \/ bret.events[i].type = "MOUSEBUTTONUP" /\ bret.events[i].button \in {1, 2, 3}
               \/ bret.events[i].type = "FINGERUP"
            /\ InsideBackbox(bret.events[i])
      /\ ~Interactive )
    => bret.applied = 0

\* C13: a draw step that completes draws the back-box (border rect and glyph)
\* if and only if mouse input is enabled, a back-box was requested, and not
\* (box mode CLOSE and the menu exists with no close action); at root with
\* the close action unset it is not drawn even when it was requested
C13_BackboxDrawnIffVisible ==
    (bret.op = "draw" /\ bret.result = "none")
    => /\ ("backbox rect" \in bret.drawn) =
            ( /\ bar.mouse_enabled
              /\ bar.backbox
              /\ ~(bar.box_mode = _MODE_CLOSE /\ bar.attached /\ ~menu.onclose) )
       /\ ("backbox glyph" \in bret.drawn) = ("backbox rect" \in bret.drawn)
       /\ (menu.depth = 0 /\ ~menu.onclose) => "backbox rect" \notin bret.drawn

\* a bar with a requested back-box was drawn without it at the root of a
\* menu that has no close action
C13_Witness ==
    /\ bret.op = "draw" /\ bret.result = "none"
    /\ bar.backbox /\ bar.mouse_enabled
    /\ menu.depth = 0 /\ ~menu.onclose
    /\ bret.drawn = {"polygon", "title"}

\* a requested back-box was drawn in a submenu
C13_WitnessDrawn ==
    /\ bret.op = "draw" /\ bret.result = "none"
    /\ menu.depth = 1
    /\ "backbox glyph" \in bret.drawn

\* event e is one the specification lets trigger the callback
Qualifies(e) ==
    \/ e.type = "MOUSEBUTTONUP" /\ e.button = 1 /\ bar.mouse_enabled /\ InsideBackbox(e)
    \/ e.type = "JOYBUTTONDOWN" /\ e.button = JOY_BUTTON_BACK /\ bar.joystick_enabled
    \/ e.type = "FINGERUP" /\ bar.touchscreen_enabled /\ InsideBackbox(e)

-----------------------------------------------------------------------------
(* MenuBar.get_scrollbar_style_change *)

\* get_scrollbar_style_change that changes the scrollbar whatever
\* modify_scrollarea is
ScrollbarChangeAlways(b, m, position) ==
    LET r == _render(b, m)
        pts == r.bar.polygon_pos.pts
    IN  IF r.bar.style = MENUBAR_STYLE_ADAPTIVE /\ position = POSITION_EAST
             /\ ~r.bar.polygon_pos.none
        THEN [bar |-> r.bar, err |-> "none",
              value |-> <<pts[5][2] - pts[3][2], 0, -(pts[5][2] - pts[3][2])>>]
        ELSE [bar |-> r.bar, err |-> "none", value |-> <<0, 0, 0>>]

\* get_scrollbar_style_change that measures between the vertices B and C
ScrollbarChangeWrongVertex(b, m, position) ==
    LET r == _render(b, m)
        pts == r.bar.polygon_pos.pts
    IN  IF r.bar.modify_scrollarea /\ r.bar.style = MENUBAR_STYLE_ADAPTIVE
             /\ position = POSITION_EAST /\ ~r.bar.polygon_pos.none
        THEN [bar |-> r.bar, err |-> "none",
              value |-> <<pts[3][2] - pts[2][2], 0, -(pts[3][2] - pts[2][2])>>]
        ELSE [bar |-> r.bar, err |-> "none", value |-> <<0, 0, 0>>]

\* MenuBar.get_scrollbar_style_change: [bar, err, value]; value is
\* <<t, dx, dy>> for the result (t, (dx, dy)), in hundredths of a pixel. The
\* render pass it starts with may raise ValueError, and a bar that has no
\* polygon raises TypeError where the polygon is indexed.
get_scrollbar_style_change(b, m, position) ==
    LET r == _render(b, m)
        pts == r.bar.polygon_pos.pts
        t == pts[5][2] - pts[3][2]
    IN  IF r.result = "ValueError"
        THEN [bar |-> r.bar, err |-> "ValueError", value |-> <<>>]
        ELSE IF ~r.bar.modify_scrollarea
        THEN [bar |-> r.bar, err |-> "none", value |-> <<0, 0, 0>>]
        ELSE IF r.bar.style = MENUBAR_STYLE_ADAPTIVE /\ position = POSITION_EAST
        THEN IF r.bar.polygon_pos.none
             THEN [bar |-> r.bar, err |-> "TypeError", value |-> <<>>]
             ELSE [bar |-> r.bar, err |-> "none", value |-> <<t, 0, -t>>]
        ELSE [bar |-> r.bar, err |-> "none", value |-> <<0, 0, 0>>]

ScrollbarPositions == {POSITION_EAST, POSITION_SOUTHEAST, POSITION_NORTHWEST}
FontHeights == {22, 25}

\* bar.get_scrollbar_style_change(position)
GetScrollbarStyleChange(position) ==
    /\ \E r \in {get_scrollbar_style_change(bar, menu, position)} :
         /\ bar' = r.bar
         /\ bret' = [BRet("get_scrollbar_style_change", r.err)
                       EXCEPT !.position = position, !.value = r.value,
                              !.warned = _render(bar, menu).warned]
    /\ passed' = PassNow(bar)
    /\ UNCHANGED menu
    /\ UNCHANGED themeVars

\* a bar of any style and font height that does or does not modify the
\* scrollarea
ScrollInit ==
    /\ \E mode \in StyleInputs, modify_scrollarea \in BOOLEAN, height \in FontHeights :
         bar = MenuBar__init__(StrV("A"), 100, Tup(<<70, 70, 70>>), FALSE, mode,
                               modify_scrollarea, 0, 0,
                               [selected_color |-> <<255, 255, 255>>, color |-> <<255, 255, 255>>, height |-> height])
    /\ menu = MenuInit(TRUE)
    /\ bret = BRet("__init__", "none")
    /\ passed = NotPassed

ScrollSpecInit == ScrollInit /\ ThemeInit

ScrollNext ==
    \/ SetMenu
    \/ \E title \in TitleInputs, offsetx \in OffsetInputs : SetTitle(title, offsetx, 0)
    \/ \E x \in PositionInputs : SetPosition(x, 0)
    \/ \E position \in ScrollbarPositions : GetScrollbarStyleChange(position)

\* a MenuBar is given its Menu, retitled and moved, and asked for the change
\* of the scrollbars
SpecScroll == ScrollSpecInit /\ [][ScrollNext]_vars

\* the last call was get_scrollbar_style_change
AfterScrollbarChange == bret.op = "get_scrollbar_style_change"

\* C15: for a bar of one of the seven styles, get_scrollbar_style_change
\* returns (0, (0, 0)) for every style and position other than ADAPTIVE with
\* the east position, and for every style and position when
\* modify_scrollarea is false
C15_ZeroChangeElsewhere ==
    ( /\ AfterScrollbarChange
      /\ bar.style \in MenubarStyles
      /\ \/ ~(bar.style = MENUBAR_STYLE_ADAPTIVE /\ bret.position = POSITION_EAST)
         \/ ~bar.modify_scrollarea )
    => (bret.result = "none" /\ bret.value = <<0, 0, 0>>)

\* an ADAPTIVE bar that does not modify the scrollarea was asked for the
\* east position, after a render
C15_Witness ==
    /\ AfterScrollbarChange
    /\ bar.attached
    /\ bar.style = MENUBAR_STYLE_ADAPTIVE
    /\ bret.position = POSITION_EAST
    /\ ~bar.modify_scrollarea
    /\ ~bar.polygon_pos.none
    /\ bret.value = <<0, 0, 0>>

\* C18: for an ADAPTIVE bar attached to a menu with modify_scrollarea true,
\* get_scrollbar_style_change(east) returns (t, (0, -t)), t being the y of
\* vertex E minus the y of vertex C of the polygon of the current title,
\* which is 0.4 times the height of the rendered title and positive when
\* that height is
C18_AdaptiveEastChange ==
    ( /\ AfterScrollbarChange
      /\ bar.style = MENUBAR_STYLE_ADAPTIVE
      /\ bar.attached
      /\ bar.modify_scrollarea
      /\ bret.position = POSITION_EAST )
    => LET pts == StyleGeometry(bar, [bar.rect EXCEPT !.h = SurfaceSize(bar).h]).pts
           t == pts[5][2] - pts[3][2]
       IN  /\ bret.result = "none"
           /\ bret.value = <<t, 0, -t>>
           /\ bar.polygon_pos.pts[5][2] - bar.polygon_pos.pts[3][2] = t
           /\ 10 * t = 4 * Px * SurfaceSize(bar).h
           /\ SurfaceSize(bar).h > 0 => t > 0

\* an ADAPTIVE bar retitled "AB" and moved returned the drop of its title
\* of height 25: 10 pixels
C18_Witness ==
    /\ AfterScrollbarChange
    /\ bar.style = MENUBAR_STYLE_ADAPTIVE
    /\ bar.attached /\ bar.modify_scrollarea
    /\ bret.position = POSITION_EAST
    /\ bar.title = "AB" /\ bar.rect.x = 10
    /\ bar.font_height = 25
    /\ bret.value = <<10 * Px, 0, -(10 * Px)>>

-----------------------------------------------------------------------------
(* MenuBar: the transformations it does not accept *)

\* Widget.scale as a widget that accepts the transformation would have it
ScaleRect(b, args) ==
    IF args = <<>> THEN b ELSE [b EXCEPT !.rect.w = @ * args[1], !.rect.h = @ * args[1]]

\* MenuBar.set_padding .. set_border: each takes any arguments and returns
\* self, the bar as it is
set_padding(b, args) == b
scale(b, args) == b
resize(b, args) == b
set_max_height(b, args) == b
set_max_width(b, args) == b
set_selection_effect(b, args) == b
set_border(b, args) == b

TransformArgs == {<<>>, <<2>>, <<2, 3>>}

\* bar.set_padding(*args)
SetPadding(args) ==
    /\ bar' = set_padding(bar, args)
    /\ bret' = BRet("set_padding", "self")
    /\ UNCHANGED <<menu, passed>>
    /\ UNCHANGED themeVars

\* bar.scale(*args)
Scale(args) ==
    /\ bar' = scale(bar, args)
    /\ bret' = BRet("scale", "self")
    /\ UNCHANGED <<menu, passed>>
    /\ UNCHANGED themeVars

\* bar.resize(*args)
Resize(args) ==
    /\ bar' = resize(bar, args)
    /\ bret' = BRet("resize", "self")
    /\ UNCHANGED <<menu, passed>>
    /\ UNCHANGED themeVars

\* bar.set_max_height(*args)
SetMaxHeight(args) ==
    /\ bar' = set_max_height(bar, args)
    /\ bret' = BRet("set_max_height", "self")
    /\ UNCHANGED <<menu, passed>>
    /\ UNCHANGED themeVars

\* bar.set_max_width(*args)
SetMaxWidth(args) ==
    /\ bar' = set_max_width(bar, args)
    /\ bret' = BRet("set_max_width", "self")
    /\ UNCHANGED <<menu, passed>>
    /\ UNCHANGED themeVars

\* bar.set_selection_effect(*args)
SetSelectionEffect(args) ==
    /\ bar' = set_selection_effect(bar, args)
    /\ bret' = BRet("set_selection_effect", "self")
    /\ UNCHANGED <<menu, passed>>
    /\ UNCHANGED themeVars

\* bar.set_border(*args)
SetBorder(args) ==
    /\ bar' = set_border(bar, args)
    /\ bret' = BRet("set_border", "self")
    /\ UNCHANGED <<menu, passed>>
    /\ UNCHANGED themeVars

TransformOps ==
    {"set_padding", "scale", "resize", "set_max_height", "set_max_width",
     "set_selection_effect", "set_border"}

\* a bar with or without a back-box, of a style with an extra height or not
TransformInit ==
    /\ \E back_box \in BOOLEAN, mode \in {MENUBAR_STYLE_ADAPTIVE, MENUBAR_STYLE_UNDERLINE} :
         bar = MenuBar__init__(StrV("A"), 100, Tup(<<70, 70, 70>>), back_box, mode,
                               TRUE, 0, 0,
                               [selected_color |-> <<255, 255, 255>>,
                              color |-> <<255, 255, 255>>, height |-> 22])
    /\ menu = MenuInit(TRUE)
    /\ bret = BRet("__init__", "none")
    /\ passed = NotPassed

TransformSpecInit == TransformInit /\ ThemeInit

TransformNext ==
    \/ SetMenu
    \/ Render
    \/ \E title \in TitleInputs, offsetx \in OffsetInputs : SetTitle(title, offsetx, 0)
    \/ \E d \in {-1, 1} : Navigate(d)
    \/ \E args \in TransformArgs : SetPadding(args)
    \/ \E args \in TransformArgs : Scale(args)
    \/ \E args \in TransformArgs : Resize(args)
    \/ \E args \in TransformArgs : SetMaxHeight(args)
    \/ \E args \in TransformArgs : SetMaxWidth(args)
    \/ \E args \in TransformArgs : SetSelectionEffect(args)
    \/ \E args \in TransformArgs : SetBorder(args)

\* a MenuBar is given its Menu, rendered and retitled while the Menu opens
\* and leaves submenus, and is asked for transformations at any time
SpecTransform == TransformSpecInit /\ [][TransformNext]_vars

\* C16: set_padding, scale, resize, set_max_height, set_max_width,
\* set_selection_effect and set_border, with any arguments and in any state,
\* return the bar itself and leave every field of the bar unchanged
C16_TransformsRefused ==
    [][ bret'.op \in TransformOps => (bret'.result = "self" /\ bar' = bar) ]_vars

\* a rendered bar with a back-box, in a submenu, was asked to scale
C16_Witness ==
    /\ bret.op = "scale"
    /\ bar.attached /\ bar.backbox
    /\ ~bar.polygon_pos.none /\ ~bar.backbox_pos.none
    /\ bar.box_mode = _MODE_BACK
    /\ bar.rect.h = 26

\* C17: every render pass on an attached bar whose style is none of the seven
\* fails with the invalid-style error (ValueError), on the first pass and on
\* every later one; it never reports "unchanged" or success
C17_InvalidStyleAlwaysFails ==
    (AfterRenderPass /\ bar.style \notin MenubarStyles) => bret.result = "ValueError"

-----------------------------------------------------------------------------
(* Claims about the sizes and vectors of a validated Theme *)

\* C19: after a successful validate(), scrollbar_thick, title_font_size,
\* widget_font_size and the three shadow offsets are strictly positive,
\* scrollbar_slider_pad is not negative and title_bar_style is one of the
\* seven menubar styles
C19_SizesPositive ==
    Validated =>
        /\ \A a \in {"scrollbar_thick", "title_font_size", "widget_font_size",
                     "title_shadow_offset", "scrollbar_shadow_offset",
                     "widget_shadow_offset"} : theme[a].v[1] > 0
        /\ theme.scrollbar_slider_pad.v[1] >= 0
        /\ theme.title_bar_style.v[1] \in MenubarStyles

\* the six vector attributes that validate() converts: five of two elements
\* and widget_padding
VectorAttrs == {VecOrder[i].attr : i \in DOMAIN VecOrder}

\* the five vector attributes of two elements
TwoVectorAttrs == VectorAttrs \ {"widget_padding"}

\* the values assigned to a vector attribute: lists and tuples of 1 to 5
\* elements and a number; the lists hold elements no tuple here holds
VectorValues ==
    {Tup(<<1, 2>>), Lst(<<3, 4>>), Lst(<<3>>), Tup(<<1, 2, 3>>), Lst(<<3, 4, 5>>),
     Lst(<<3, 4, 5, 6, 7>>), IntV(3)}

\* the number of vector attributes that may hold another value than the
\* constructor's default
MaxAssigned == 2

\* the Theme that the constructor builds from no keyword
DefaultTheme == Theme__init__(EmptyMap).theme

\* the vector attributes that hold another value than the default
Assigned(t) == {a \in VectorAttrs : t[a] # DefaultTheme[a]}

\* theme.a = value: an attribute of the Theme object is assigned
SetAttr(a, value) ==
    /\ built
    /\ Cardinality(Assigned(theme) \cup {a}) <= MaxAssigned
    /\ theme' = [theme EXCEPT ![a] = value]
    /\ ret' = Ret("__setattr__", "none", value)
    /\ UNCHANGED <<built, kwargs>>
    /\ UNCHANGED barVars

VectorsNext ==
    \/ Construct({EmptyMap})
    \/ \E a \in VectorAttrs, value \in VectorValues : SetAttr(a, value)
    \/ Validate

\* a default Theme has vector attributes assigned and is validated, at any
\* time and any number of times
SpecVectors == ThemeSpecInit /\ [][VectorsNext]_vars

\* C20: a successful validate() turns every list-valued vector attribute into
\* a tuple of the same elements in the same order and keeps a scalar
\* widget_padding; validate() fails when one of the five 2-vector attributes
\* has not exactly 2 elements and when a sequence-valued widget_padding has
\* fewer than 2 or more than 4
C20_VectorsToTuples ==
    [][ ret'.op = "validate" =>
          /\ ret'.err = "none" =>
               \A a \in VectorAttrs :
                  IF IsSeq(theme[a]) THEN theme'[a] = Tup(theme[a].v)
                  ELSE theme'[a] = theme[a]
          /\ (\E a \in TwoVectorAttrs : IsSeq(theme[a]) /\ Len(theme[a].v) # 2)
               => ret'.err # "none"
          /\ (IsSeq(theme.widget_padding) /\ Len(theme.widget_padding.v) \notin 2..4)
               => ret'.err # "none"
      ]_vars

\* a Theme whose widget_margin was the list [3, 4] and whose widget_padding
\* was the list [3, 4, 5] has validated and holds them as tuples
C20_Witness ==
    /\ Validated
    /\ theme.widget_margin = Tup(<<3, 4>>)
    /\ theme.widget_padding = Tup(<<3, 4, 5>>)

\* validate() has failed on a Theme whose title_offset has 3 elements
C20_WitnessLength ==
    /\ ret.op = "validate" /\ ret.err = "ValueError"
    /\ theme.title_offset = Tup(<<1, 2, 3>>)

-----------------------------------------------------------------------------
(* The title colour check of a render pass *)

\* font colours equal to the background (70, 70, 70), 4 away from it on two
\* channels, exactly 5 away on one channel, and far from it
FontColors == {<<70, 70, 70>>, <<74, 66, 73>>, <<75, 70, 70>>, <<70, 70, 65>>, <<255, 255, 255>>}

\* the background colours of the bar, as assert_color returns them
BarBackgrounds == {Tup(<<70, 70, 70>>), Tup(<<0, 0, 0>>)}

\* the background of the menu's validated theme: a colour or an image
MenuBackgrounds == {Tup(<<70, 70, 70, 255>>), Tup(<<0, 0, 0, 255>>), ImageV}

\* a bar of any of the seven styles, font colour and background on a menu of
\* any background
ColorInit ==
    /\ \E mode \in MenubarStyles, color \in FontColors, back \in BarBackgrounds,
          back_box \in BOOLEAN :
         bar = MenuBar__init__(StrV("A"), 100, back, back_box, mode, TRUE, 0, 0,
                               [selected_color |-> <<255, 255, 255>>, color |-> color,
                                height |-> 22])
    /\ \E back \in MenuBackgrounds : menu = [MenuInit(TRUE) EXCEPT !.background_color = back]
    /\ bret = BRet("__init__", "none")
    /\ passed = NotPassed

ColorSpecInit == ColorInit /\ ThemeInit

ColorNext ==
    \/ SetMenu
    \/ Render
    \/ \E title \in TitleInputs : SetTitle(title, 0, 0)

\* bars of every style and colour are given their menu, rendered and retitled
SpecColor == ColorSpecInit /\ [][ColorNext]_vars

\* the last call recomputed the geometry of the bar
Recomputed == bret.op \in {"_render", "set_title"} /\ bret.result = "rendered"

\* the background that the claim compares with the font colour
ComparedBackground ==
    IF bar.style \in {MENUBAR_STYLE_NONE, MENUBAR_STYLE_UNDERLINE,
                      MENUBAR_STYLE_UNDERLINE_TITLE}
    THEN menu.background_color ELSE bar.background_color

\* x and y differ by less than 5
Near(x, y) == x - y < 5 /\ y - x < 5

\* C21: a recomputation emits the warning exactly when the background
\* compared (the menu's for NONE, UNDERLINE and UNDERLINE_TITLE, the bar's own
\* for the other four styles) is a colour and the font colour is less than 5
\* away from it on each of red, green and blue; the geometry computed does
\* not depend on the font colour, so it is the same with and without warning
C21_WarningIffSimilar ==
    Recomputed =>
        /\ bret.warned <=>
             /\ IsSeq(ComparedBackground)
             /\ \A i \in 1..3 : Near(ComparedBackground.v[i], bar.font_color[i])
        /\ \A c \in FontColors :
             LET r == Recompute([bar EXCEPT !.font_color = c], menu, menu.depth = 0)
             IN  Geometry(r.bar) = Geometry(bar)

\* an UNDERLINE bar whose font colour is 4 away from the menu's background
\* and far from its own has warned
C21_Witness ==
    /\ Recomputed /\ bret.warned
    /\ bar.style = MENUBAR_STYLE_UNDERLINE
    /\ bar.font_color = <<74, 66, 73>>
    /\ bar.background_color = Tup(<<0, 0, 0>>)

\* a SIMPLE bar whose font colour is exactly 5 away from its background on
\* one channel has not warned
C21_WitnessExactlyFive ==
    /\ Recomputed /\ ~bret.warned
    /\ bar.style = MENUBAR_STYLE_SIMPLE
    /\ bar.font_color = <<75, 70, 70>>
    /\ bar.background_color = Tup(<<70, 70, 70>>)

-----------------------------------------------------------------------------
(* Claims about the title offset and the rect of a rendered MenuBar *)

\* the styles whose polygon depends on the title offset
OffsetStyles ==
    {MENUBAR_STYLE_ADAPTIVE, MENUBAR_STYLE_TITLE_ONLY, MENUBAR_STYLE_TITLE_ONLY_DIAGONAL,
     MENUBAR_STYLE_UNDERLINE_TITLE}

\* the rect of bar b with the size of its rendered title
TitleRect(b) == [b.rect EXCEPT !.w = SurfaceSize(b).w, !.h = SurfaceSize(b).h]

\* C22: after set_title returns on a bar attached to a menu, for the styles
\* whose polygon depends on offsetx the stored polygon is the one computed
\* from the offset that the bar now holds (the one get_title_offset
\* reports), also when only the offset changed
C22_PolygonFollowsOffset ==
    (bret.op = "set_title" /\ bar.attached /\ bar.style \in OffsetStyles)
        => bar.polygon_pos = Points(StyleGeometry(bar, TitleRect(bar)).pts)

\* the extra height that the claim gives each style
HeightExtra(style) ==
    IF style = MENUBAR_STYLE_UNDERLINE THEN 4
    ELSE IF style = MENUBAR_STYLE_UNDERLINE_TITLE THEN 3
    ELSE 0

\* C23: after any sequence of render passes, recomputing or skipped, on an
\* attached bar of one of the seven styles, the height of the widget rect is
\* the height of the rendered title plus 4 for UNDERLINE, 3 for
\* UNDERLINE_TITLE and 0 for the other styles: the extra is added once only
C23_RectHeightExtraOnce ==
    (bar.attached /\ bar.last_render_hash.valid /\ bar.style \in MenubarStyles)
        => bar.rect.h = SurfaceSize(bar).h + HeightExtra(bar.style)

\* an UNDERLINE bar that was retitled, moved and rendered in a submenu, on
\* which a further render pass was skipped, is 4 higher than its title
C23_Witness ==
    /\ AfterRenderPass
    /\ bret.result = "unchanged"
    /\ bar.style = MENUBAR_STYLE_UNDERLINE
    /\ bar.title = "AB" /\ bar.rect.x = 10 /\ bar.box_mode = _MODE_BACK
    /\ bar.rect.h = 26

\* an UNDERLINE_TITLE bar is 3 higher than its title after a recomputation
C23_WitnessTitle ==
    /\ AfterRenderPass
    /\ bret.result = "rendered"
    /\ bar.style = MENUBAR_STYLE_UNDERLINE_TITLE
    /\ bar.title = "AB" /\ bar.rect.x = 10 /\ bar.box_mode = _MODE_BACK
    /\ bar.rect.h = 25

-----------------------------------------------------------------------------
(* Claims about update on a readonly or hidden MenuBar *)

\* C24: update on a bar that is readonly or not visible returns false for
\* every batch of events, calls neither the callback nor the update
\* callbacks and leaves the bar and its menu as they were, also when the
\* batch holds clicks inside the back-box rect or joystick back presses
C24_ReadonlyOrHiddenIgnoresEvents ==
    [][ (bret'.op = "update" /\ (bar.readonly \/ ~bar.visible))
          => /\ bret'.result = "False"
             /\ bret'.applied = 0
             /\ bret'.callbacks = 0
             /\ bar' = bar
             /\ menu' = menu ]_vars

\* a readonly, visible bar with a rendered back-box was given a click inside
\* the back-box rect and a joystick back press and returned false
C24_Witness ==
    /\ AfterUpdate
    /\ bar.readonly /\ bar.visible /\ bar.mouse_enabled /\ bar.joystick_enabled
    /\ Interactive
    /\ bret.events = << Event("MOUSEBUTTONUP", 1, <<92, 6>>),
                        Event("JOYBUTTONDOWN", JOY_BUTTON_BACK, <<0, 0>>) >>
    /\ InsideBackbox(bret.events[1])
    /\ bret.result = "False"

\* a hidden bar that is not readonly was given a joystick back press and
\* returned false
C24_WitnessHidden ==
    /\ AfterUpdate
    /\ ~bar.readonly /\ ~bar.visible /\ bar.joystick_enabled
    /\ bret.events = << Event("JOYBUTTONDOWN", JOY_BUTTON_BACK, <<0, 0>>) >>
    /\ bret.result = "False"

-----------------------------------------------------------------------------
(* Claims about validating a Theme again *)

\* C25: validate() called on a Theme on which validate() has succeeded
\* succeeds again and leaves every field as it was
C25_ValidateIdempotent ==
    [][ (ret.op = "validate" /\ ret.err = "none" /\ ret'.op = "validate")
          => (ret'.err = "none" /\ theme' = theme) ]_vars

\* validate() is also without effect on what validate() would give next: the
\* Theme that a successful validate() left validates to itself
C25_ValidatedIsFixpoint ==
    Validated => (validate(theme).err = "none" /\ validate(theme).theme = theme)

\* a Theme built from a 3-channel list colour has validated: the colour is a
\* 4-channel tuple, and validate() can be called again
C25_Witness ==
    /\ Validated
    /\ built
    /\ \E a \in DOMAIN kwargs \cap ColourAttrs :
         kwargs[a] = Lst(<<10, 20, 30>>) /\ theme[a] = Tup(<<10, 20, 30, 255>>)
    /\ validate(theme).err = "none"

=============================================================================
